---- MODULE Spec2Model ----
(***************************************************************************)
(* Model of Gorialis/Mipha utilities:                                      *)
(*   - RoboPages, the button-driven pagination view                        *)
(*     (src/utilities/paginator.py)                                        *)
(*   - WhenAndWhatConverter / WhenAndWhatTransformer, the splitter of a    *)
(*     free-text argument into a time and a label                          *)
(*     (src/utilities/converters.py)                                       *)
(*   - DatetimeConverter / DatetimeTransformer, the conversion of a whole  *)
(*     argument into a time (src/utilities/converters.py)                  *)
(* Spec      is the pagination session.                                    *)
(* SpecSplit is the when-and-what conversion.                              *)
(* SpecStrip is the clean-up of the argument, applied to its own output.   *)
(* SpecWhen  is the parser's response and the time taken from it.          *)
(***************************************************************************)
EXTENDS Integers, Sequences, FiniteSets, TLC

VARIABLES
    \* ---- RoboPages (paginator.py:44-232)
    phase,          \* "uninitialized" | "active" | "stopped" | "timed_out"
    message,        \* self.message: "None" | "sent" | "deleted"
    current_page,   \* self.current_page
    fetched,        \* the index of the page get_page returned last, or None
    compact,        \* self.compact
    max_pages,      \* self.source.get_max_pages(): None or a number
    srcLen,         \* number of pages the source holds: max_pages when it is known
    negIndex,       \* the source's get_page accepts Python negative indexes
    items,          \* the buttons added to the view by fill_items
    disabled,       \* button -> .disabled
    label,          \* button -> .label
    rendered,       \* what the chat message shows: the page, the view, the disabled buttons
    modals,         \* numbered_page coroutines suspended in modal.wait()
    responses,      \* responses made while handling the latest event
    lastOp,         \* the latest event handled, with the page before it
    \* ---- WhenAndWhat conversion (converters.py:206-254, 409-452)
    pc,             \* "idle" | "input" | "cleaned" | "parsed" | "done"
    argument,       \* the text being converted
    parsed_times,   \* the list DatetimeConverter.parse returned
    result,         \* what convert/transform returned or raised
    stripped,       \* the outputs of successive passes of the clean-up
    data,           \* the entries of the parser's response
    clock           \* the wall clock when the response is processed

pagerVars == <<phase, message, current_page, fetched, compact, max_pages, srcLen, negIndex,
               items, disabled, label, rendered, modals, responses, lastOp>>
splitVars == <<pc, argument, parsed_times, result, stripped, data, clock>>
vars == <<phase, message, current_page, fetched, compact, max_pages, srcLen, negIndex,
          items, disabled, label, rendered, modals, responses, lastOp,
          pc, argument, parsed_times, result, stripped, data, clock>>

-----------------------------------------------------------------------------
(* Bounds *)

\* largest number of pages a source holds
MaxPages == 3
\* most jump-to-page modals open at once
MaxModals == 1
\* longest text typed into a modal without max_length
MaxTextLen == 1

\* longest text handed to the converter, the stripped fillers not counted
MaxLen == 5
\* most candidates the parser returns
MaxCands == 2
\* longest time, in ticks, from the creation of the message to the processing
\* of the parser's response
MaxDelay == 1

\* Python's None, for an integer-valued attribute
None == -1

\* the creation time of the message or interaction (converters.py:188, 210),
\* the origin of the instants
Now == 0

-----------------------------------------------------------------------------
(* RoboPages *)

Buttons == {"go_to_first_page", "go_to_previous_page", "go_to_current_page",
            "go_to_next_page", "go_to_last_page", "numbered_page", "stop_pages"}

\* ctx.author, ctx.bot.owner_id, anyone else
Users == {"author", "owner", "stranger"}

\* how show_page may end short of an edit: format_page or the edit raises
\* something other than IndexError, or format_page returns nothing to show
\* (lines 91-92, 99)
Failures == {"none", "format_page", "edit", "no_kwargs"}

\* characters typed into the modal: decimal digits, a letter, and the
\* superscript two, for which str.isdigit() is True and int() raises ValueError
DigitChars == {"0", "1", "2", "3"}
ModalChars == DigitChars \cup {"a", "sup2"}

DigitVal(c) ==
    CASE c = "0" -> 0 [] c = "1" -> 1 [] c = "2" -> 2
      [] c = "3" -> 3

\* the decorators' labels and disabled flags (lines 174, 179, 184, 188, 193, 199, 227)
InitLabel ==
    [b \in Buttons |->
        CASE b = "go_to_first_page" -> "<<"
          [] b = "go_to_previous_page" -> "Back"
          [] b = "go_to_current_page" -> "Current"
          [] b = "go_to_next_page" -> "Next"
          [] b = "go_to_last_page" -> ">>"
          [] b = "numbered_page" -> "Skip to page..."
          [] b = "stop_pages" -> "Quit"]

InitDisabled == [b \in Buttons |-> b = "go_to_current_page"]

Ellipsis == "..."

\* menus.ListPageSource.is_paginating / a source without a known length
IsPaginating(mp) == IF mp = None THEN TRUE ELSE mp >= 2

\* mutant of FillItems: the first and last buttons are always added
FillItemsAlwaysLast(cmp, mp) ==
    IF ~IsPaginating(mp) THEN {}
    ELSE {"go_to_first_page", "go_to_last_page",
          "go_to_previous_page", "go_to_next_page", "stop_pages"}
             \cup (IF ~cmp THEN {"go_to_current_page", "numbered_page"} ELSE {})

\* RoboPages.fill_items
FillItems(cmp, mp) ==
    IF ~IsPaginating(mp) THEN {}
    ELSE LET use_last_and_first == mp # None /\ mp >= 2
         IN  (IF use_last_and_first THEN {"go_to_first_page", "go_to_last_page"} ELSE {})
             \cup {"go_to_previous_page", "go_to_next_page", "stop_pages"}
             \cup (IF ~cmp THEN {"go_to_current_page", "numbered_page"} ELSE {})

\* RoboPages._update_labels: the disabled flags
UpdateDisabled(dis, cmp, mp, page_number) ==
    IF cmp
    THEN [dis EXCEPT !["go_to_first_page"] = (page_number = 0),
                     !["go_to_last_page"] = (mp = None \/ (page_number + 1) >= mp),
                     !["go_to_next_page"] = (mp # None /\ (page_number + 1) >= mp),
                     !["go_to_previous_page"] = (page_number = 0)]
    ELSE [dis EXCEPT !["go_to_first_page"] = FALSE,
                     !["go_to_next_page"] = (mp # None /\ (page_number + 1) >= mp),
                     !["go_to_previous_page"] = (mp # None /\ page_number = 0),
                     !["go_to_last_page"] =
                         IF mp # None THEN (page_number + 1) >= mp ELSE @]

\* RoboPages._update_labels: the labels
UpdateLabels(lab, cmp, mp, page_number) ==
    IF cmp THEN lab
    ELSE [lab EXCEPT !["go_to_current_page"] = ToString(page_number + 1),
                     !["go_to_previous_page"] =
                         IF mp # None /\ page_number = 0
                         THEN Ellipsis ELSE ToString(page_number),
                     !["go_to_next_page"] =
                         IF mp # None /\ (page_number + 1) >= mp
                         THEN Ellipsis ELSE ToString(page_number + 2)]

\* self.source.get_page(page_number): a page, or IndexError
GetPage(page_number) ==
    IF 0 <= page_number /\ page_number < srcLen THEN "page"
    ELSE IF negIndex /\ -srcLen <= page_number /\ page_number < 0 THEN "page"
    ELSE "IndexError"

\* how show_page(page_number) may end: nothing after get_page is reached when
\* get_page raises IndexError (line 95)
FailuresOf(page_number) ==
    IF GetPage(page_number) = "IndexError" THEN {"none"} ELSE Failures

\* mutant of InRange: the lower bound is not tested
InRangeNoLower(mp, page_number) == mp > page_number

\* the range test of show_checked_page (line 138)
InRange(mp, page_number) == mp > page_number /\ page_number >= 0

\* mutant of InteractionCheck: everyone may drive the session
InteractionCheckAll(user) == TRUE

\* interaction_check (line 145)
InteractionCheck(user) == user \in {"owner", "author"}

\* mutant of IsFinished: the late submission is not recognised
NeverFinished == FALSE

\* self.is_finished() as numbered_page reads it (line 212)
IsFinished == phase \in {"stopped", "timed_out"}

\* str.isdigit() of the modal's text
IsDigit(text) ==
    Len(text) >= 1 /\ \A i \in 1..Len(text) : text[i] \in DigitChars \cup {"sup2"}

\* int(value) raises ValueError
IntRaises(text) == \E i \in 1..Len(text) : text[i] = "sup2"

RECURSIVE IntOf(_)
\* int(value) of a string of decimal digits
IntOf(text) ==
    IF Len(text) = 0 THEN 0
    ELSE 10 * IntOf(SubSeq(text, 1, Len(text) - 1)) + DigitVal(text[Len(text)])

\* mutant of PageIndexOf: the typed number is used as the index
PageIndexOfSame(value) == value

\* the 1-based number typed becomes a 0-based index (line 222)
PageIndexOf(value) == value - 1

\* the texts typed into the modal: min_length 1, max_length len(str(max_pages))
\* when max_pages is known (lines 30-37); every single character, and the
\* longer strings of decimal digits
ModalTexts ==
    LET maxLen == IF max_pages = None THEN MaxTextLen
                  ELSE Len(ToString(max_pages))
    IN  [1..1 -> ModalChars]
            \cup UNION {[1..n -> DigitChars] : n \in 2..maxLen}

\* the latest event: its handler, who sent it (the author and the owner are
\* both recorded as "controller"), the page before it, the text submitted and
\* the failure that happened in show_page
Op(name, user, text, fail) ==
    [op |-> name,
     user |-> IF user \in {"author", "owner"} THEN "controller" ELSE user,
     pre |-> current_page, text |-> text, fail |-> fail]

Resp(on, kind) == [on |-> on, kind |-> kind]

\* on_error (lines 154-158): followup when the interaction was already
\* answered, a fresh response otherwise
OnError(done) ==
    IF done THEN Resp("button", "followup:unknown_error")
    ELSE Resp("button", "send_message:unknown_error")

\* mutant of ShowPage: current_page is not assigned
ShowPageNoAssign(on, page_number, fail) ==
    IF GetPage(page_number) = "IndexError"
    THEN [raised |-> "IndexError", failed |-> "none", cp |-> current_page,
          got |-> fetched,
          dis |-> disabled, lab |-> label, ren |-> rendered, resp |-> <<>>]
    ELSE IF fail = "format_page"
    THEN [raised |-> "Exception", failed |-> fail, cp |-> current_page,
          got |-> page_number,
          dis |-> disabled, lab |-> label, ren |-> rendered, resp |-> <<>>]
    ELSE LET d == UpdateDisabled(disabled, compact, max_pages, page_number)
             l == UpdateLabels(label, compact, max_pages, page_number)
         IN  IF fail = "edit"
             THEN [raised |-> "Exception", failed |-> fail, cp |-> current_page,
                   got |-> page_number,
                   dis |-> d, lab |-> l, ren |-> rendered, resp |-> <<>>]
             ELSE IF fail = "no_kwargs"
             THEN [raised |-> "none", failed |-> fail, cp |-> current_page,
                   got |-> page_number,
                   dis |-> d, lab |-> l, ren |-> rendered, resp |-> <<>>]
             ELSE [raised |-> "none", failed |-> "none", cp |-> current_page,
                   got |-> page_number,
                   dis |-> d, lab |-> l,
                   ren |-> [page |-> page_number, view |-> TRUE, disabled |-> d],
                   resp |-> <<Resp(on, "edit_message")>>]

\* show_page (lines 94-104): what it leaves behind, and what it raised
ShowPage(on, page_number, fail) ==
    IF GetPage(page_number) = "IndexError"
    THEN [raised |-> "IndexError", failed |-> "none", cp |-> current_page,
          got |-> fetched,
          dis |-> disabled, lab |-> label, ren |-> rendered, resp |-> <<>>]
    ELSE IF fail = "format_page"
    THEN [raised |-> "Exception", failed |-> fail, cp |-> page_number,
          got |-> page_number,
          dis |-> disabled, lab |-> label, ren |-> rendered, resp |-> <<>>]
    ELSE LET d == UpdateDisabled(disabled, compact, max_pages, page_number)
             l == UpdateLabels(label, compact, max_pages, page_number)
         IN  IF fail = "edit"
             THEN [raised |-> "Exception", failed |-> fail, cp |-> page_number,
                   got |-> page_number,
                   dis |-> d, lab |-> l, ren |-> rendered, resp |-> <<>>]
             ELSE IF fail = "no_kwargs"
             THEN [raised |-> "none", failed |-> fail, cp |-> page_number,
                   got |-> page_number,
                   dis |-> d, lab |-> l, ren |-> rendered, resp |-> <<>>]
             ELSE [raised |-> "none", failed |-> "none", cp |-> page_number,
                   got |-> page_number,
                   dis |-> d, lab |-> l,
                   ren |-> [page |-> page_number, view |-> TRUE, disabled |-> d],
                   resp |-> <<Resp(on, "edit_message")>>]

\* nothing was shown
NotShown ==
    [raised |-> "none", failed |-> "none", cp |-> current_page, got |-> fetched,
     dis |-> disabled,
     lab |-> label, ren |-> rendered, resp |-> <<>>]

\* mutant of ShowCheckedPage: the index is never tested against max_pages
ShowCheckedPageUntested(on, page_number, fail) ==
    LET r == ShowPage(on, page_number, fail)
    IN  IF r.raised = "IndexError" THEN [r EXCEPT !.raised = "none"] ELSE r

\* show_checked_page (lines 132-142)
ShowCheckedPage(on, page_number, fail) ==
    LET r == ShowPage(on, page_number, fail)
        caught == IF r.raised = "IndexError" THEN [r EXCEPT !.raised = "none"] ELSE r
    IN  IF max_pages = None THEN caught
        ELSE IF InRange(max_pages, page_number) THEN caught
        ELSE NotShown

\* the view's state after a handler ran to r; an exception reaches on_error
Apply(r, done) ==
    /\ current_page' = r.cp
    /\ fetched' = r.got
    /\ disabled' = r.dis
    /\ label' = r.lab
    /\ rendered' = r.ren
    /\ responses' = IF r.raised # "none" THEN r.resp \o <<OnError(done)>> ELSE r.resp

\* a button the chat message offers
Clickable(b) ==
    /\ phase = "active"
    /\ b \in items
    /\ rendered.view
    /\ ~rendered.disabled[b]

\* interaction_check returned False (lines 147-148)
Rejected(b, user) ==
    /\ responses' = <<Resp("button", "send_message:not_yours")>>
    /\ lastOp' = Op(b, user, <<>>, "none")
    /\ UNCHANGED <<phase, message, current_page, fetched, compact, max_pages, srcLen, negIndex,
                   items, disabled, label, rendered, modals>>

Init ==
    /\ phase = "uninitialized"
    /\ message = "None"
    /\ current_page = 0
    /\ fetched = None
    /\ compact \in BOOLEAN
    /\ max_pages \in {None} \cup (1..MaxPages)
    /\ srcLen = IF max_pages # None THEN max_pages ELSE MaxPages
    /\ negIndex \in BOOLEAN
    /\ max_pages # None => negIndex
    /\ items = FillItems(compact, max_pages)
    /\ disabled = InitDisabled
    /\ label = InitLabel
    /\ rendered = [page |-> None, view |-> FALSE, disabled |-> InitDisabled]
    /\ modals = 0
    /\ responses = <<>>
    /\ lastOp = [op |-> "__init__", user |-> "none", pre |-> 0, text |-> <<>>,
                 fail |-> "none"]
    /\ pc = "idle"
    /\ argument = <<>>
    /\ parsed_times = <<>>
    /\ result = [raised |-> "none"]
    /\ stripped = <<>>
    /\ data = <<>>
    /\ clock = Now

\* start (lines 160-172)
Start ==
    /\ phase = "uninitialized"
    /\ \E check_embeds \in BOOLEAN, embed_links \in BOOLEAN :
        IF check_embeds /\ ~embed_links
        THEN /\ responses' = <<Resp("ctx", "send:no_embed_links")>>
             /\ UNCHANGED <<phase, message, fetched, disabled, label, rendered>>
        ELSE LET d == UpdateDisabled(disabled, compact, max_pages, 0)
                 l == UpdateLabels(label, compact, max_pages, 0)
             IN  /\ disabled' = d
                 /\ label' = l
                 /\ message' = "sent"
                 /\ fetched' = 0
                 /\ rendered' = [page |-> 0, view |-> TRUE, disabled |-> d]
                 /\ phase' = "active"
                 /\ responses' = <<Resp("ctx", "send:page")>>
    /\ lastOp' = Op("start", "author", <<>>, "none")
    /\ UNCHANGED <<current_page, compact, max_pages, srcLen, negIndex, items, modals>>
    /\ UNCHANGED splitVars

\* go_to_first_page (lines 174-177)
GoToFirstPage ==
    /\ Clickable("go_to_first_page")
    /\ \E user \in Users :
        IF ~InteractionCheck(user) THEN Rejected("go_to_first_page", user)
        ELSE \E fail \in FailuresOf(0) :
             LET r == ShowPage("button", 0, fail)
             IN  /\ Apply(r, FALSE)
                 /\ lastOp' = Op("go_to_first_page", user, <<>>, r.failed)
             /\ UNCHANGED <<phase, message, compact, max_pages, srcLen, negIndex,
                            items, modals>>
    /\ UNCHANGED splitVars

\* go_to_previous_page (lines 179-182)
GoToPreviousPage ==
    /\ Clickable("go_to_previous_page")
    /\ \E user \in Users :
        IF ~InteractionCheck(user) THEN Rejected("go_to_previous_page", user)
        ELSE \E fail \in FailuresOf(current_page - 1) :
             LET r == ShowCheckedPage("button", current_page - 1, fail)
             IN  /\ Apply(r, FALSE)
                 /\ lastOp' = Op("go_to_previous_page", user, <<>>, r.failed)
             /\ UNCHANGED <<phase, message, compact, max_pages, srcLen, negIndex,
                            items, modals>>
    /\ UNCHANGED splitVars

\* go_to_next_page (lines 188-191)
GoToNextPage ==
    /\ Clickable("go_to_next_page")
    /\ \E user \in Users :
        IF ~InteractionCheck(user) THEN Rejected("go_to_next_page", user)
        ELSE \E fail \in FailuresOf(current_page + 1) :
             LET r == ShowCheckedPage("button", current_page + 1, fail)
             IN  /\ Apply(r, FALSE)
                 /\ lastOp' = Op("go_to_next_page", user, <<>>, r.failed)
             /\ UNCHANGED <<phase, message, compact, max_pages, srcLen, negIndex,
                            items, modals>>
    /\ UNCHANGED splitVars

\* go_to_last_page (lines 193-197)
GoToLastPage ==
    /\ Clickable("go_to_last_page")
    /\ \E user \in Users :
        IF ~InteractionCheck(user) THEN Rejected("go_to_last_page", user)
        ELSE \E fail \in FailuresOf(max_pages - 1) :
             LET r == ShowPage("button", max_pages - 1, fail)
             IN  /\ Apply(r, FALSE)
                 /\ lastOp' = Op("go_to_last_page", user, <<>>, r.failed)
             /\ UNCHANGED <<phase, message, compact, max_pages, srcLen, negIndex,
                            items, modals>>
    /\ UNCHANGED splitVars

\* numbered_page up to modal.wait() (lines 199-207)
NumberedPage ==
    /\ Clickable("numbered_page")
    /\ modals < MaxModals
    /\ \E user \in Users :
        IF ~InteractionCheck(user) THEN Rejected("numbered_page", user)
        ELSE /\ modals' = modals + 1
             /\ responses' = <<Resp("button", "send_modal")>>
             /\ lastOp' = Op("numbered_page", user, <<>>, "none")
             /\ UNCHANGED <<phase, message, current_page, fetched, compact, max_pages, srcLen,
                            negIndex, items, disabled, label, rendered>>
    /\ UNCHANGED splitVars

\* mutant of ModalTimedOut: the modal's timeout also ends the session
ModalTimedOutStops ==
    /\ modals > 0
    /\ modals' = modals - 1
    /\ responses' = <<Resp("button", "followup:took_too_long")>>
    /\ lastOp' = Op("modal_timeout", "none", <<>>, "none")
    /\ phase' = "timed_out"
    /\ UNCHANGED <<message, current_page, fetched, compact, max_pages, srcLen, negIndex,
                   items, disabled, label, rendered>>
    /\ UNCHANGED splitVars

\* numbered_page resumed by the modal's timeout (lines 209-211)
ModalTimedOut ==
    /\ modals > 0
    /\ modals' = modals - 1
    /\ responses' = <<Resp("button", "followup:took_too_long")>>
    /\ lastOp' = Op("modal_timeout", "none", <<>>, "none")
    /\ UNCHANGED <<phase, message, current_page, fetched, compact, max_pages, srcLen, negIndex,
                   items, disabled, label, rendered>>
    /\ UNCHANGED splitVars

\* numbered_page resumed by NumberedPageModal.on_submit (lines 39-41, 212-225)
ModalSubmitted ==
    /\ modals > 0
    /\ modals' = modals - 1
    /\ \E text \in ModalTexts :
        IF IsFinished
        THEN /\ responses' = <<Resp("modal", "send_message:took_too_long")>>
             /\ lastOp' = Op("modal_submit", "author", text, "none")
             /\ UNCHANGED <<current_page, fetched, disabled, label, rendered>>
        ELSE IF ~IsDigit(text)
        THEN /\ responses' = <<Resp("modal", "send_message:expected_number")>>
             /\ lastOp' = Op("modal_submit", "author", text, "none")
             /\ UNCHANGED <<current_page, fetched, disabled, label, rendered>>
        ELSE IF IntRaises(text)
        THEN /\ responses' = <<OnError(TRUE)>>
             /\ lastOp' = Op("modal_submit", "author", text, "int")
             /\ UNCHANGED <<current_page, fetched, disabled, label, rendered>>
        ELSE \E fail \in FailuresOf(PageIndexOf(IntOf(text))) :
             LET r == ShowCheckedPage("modal", PageIndexOf(IntOf(text)), fail)
                 hint == IF r.raised = "none" /\ r.resp = <<>>
                         THEN [r EXCEPT !.resp =
                                   <<Resp("modal", "send_message:range_hint")>>]
                         ELSE r
             IN  /\ Apply(hint, TRUE)
                 /\ lastOp' = Op("modal_submit", "author", text, r.failed)
    /\ UNCHANGED <<phase, message, compact, max_pages, srcLen, negIndex, items>>
    /\ UNCHANGED splitVars

\* stop_pages (lines 227-232)
StopPages ==
    /\ Clickable("stop_pages")
    /\ \E user \in Users :
        IF ~InteractionCheck(user) THEN Rejected("stop_pages", user)
        ELSE /\ responses' = <<Resp("button", "defer"),
                               Resp("button", "delete_original_response")>>
             /\ message' = "deleted"
             /\ rendered' = [rendered EXCEPT !.view = FALSE]
             /\ phase' = "stopped"
             /\ lastOp' = Op("stop_pages", user, <<>>, "none")
             /\ UNCHANGED <<current_page, fetched, compact, max_pages, srcLen, negIndex,
                            items, disabled, label, modals>>
    /\ UNCHANGED splitVars

\* the view's idle timeout, then on_timeout (lines 150-152)
OnTimeout ==
    /\ phase = "active"
    /\ phase' = "timed_out"
    /\ rendered' = IF message # "None" THEN [rendered EXCEPT !.view = FALSE] ELSE rendered
    /\ responses' = <<>>
    /\ lastOp' = Op("on_timeout", "none", <<>>, "none")
    /\ UNCHANGED <<message, current_page, fetched, compact, max_pages, srcLen, negIndex,
                   items, disabled, label, modals>>
    /\ UNCHANGED splitVars

Next ==
    \/ Start
    \/ GoToFirstPage
    \/ GoToPreviousPage
    \/ GoToNextPage
    \/ GoToLastPage
    \/ NumberedPage
    \/ ModalTimedOut
    \/ ModalSubmitted
    \/ StopPages
    \/ OnTimeout

Spec == Init /\ [][Next]_vars

-----------------------------------------------------------------------------
(* Claims about the pagination session *)

Authorized == lastOp.user = "controller"

ErrorKinds == {"send_message:unknown_error", "followup:unknown_error"}

ErrorReported == \E i \in 1..Len(responses) : responses[i].kind \in ErrorKinds

\* C1 as stated: for any page source, go_to_previous_page at current_page = 0
\* and go_to_next_page at current_page = max_pages - 1 leave current_page
\* unchanged and report no error.
C1_Original ==
    /\ (lastOp.op = "go_to_previous_page" /\ Authorized /\ lastOp.pre = 0)
          => (current_page = 0 /\ (lastOp.fail = "none" => ~ErrorReported))
    /\ (lastOp.op = "go_to_next_page" /\ Authorized /\ max_pages # None
            /\ lastOp.pre = max_pages - 1)
          => (current_page = lastOp.pre /\ (lastOp.fail = "none" => ~ErrorReported))

\* C1 amended: go_to_previous_page at current_page = 0 leaves current_page
\* unchanged, silently, when the source's max_pages is known or its get_page
\* raises IndexError for a negative index; go_to_next_page at
\* current_page = max_pages - 1 leaves current_page unchanged, silently.
C1_BoundaryNoOp ==
    /\ (lastOp.op = "go_to_previous_page" /\ Authorized /\ lastOp.pre = 0
            /\ (max_pages # None \/ ~negIndex))
          => (current_page = 0 /\ responses = <<>>)
    /\ (lastOp.op = "go_to_next_page" /\ Authorized /\ max_pages # None
            /\ lastOp.pre = max_pages - 1)
          => (current_page = lastOp.pre /\ responses = <<>>)

\* go_to_previous_page ran at page 0 of a source with known max_pages
C1_Witness ==
    /\ lastOp.op = "go_to_previous_page"
    /\ Authorized
    /\ lastOp.pre = 0
    /\ max_pages # None
    /\ current_page = 0

C2_Decimal == <<"0", "1", "2", "3", "4", "5", "6", "7", "8", "9">>

C2_AllDecimal(text) ==
    Len(text) >= 1 /\ \A i \in 1..Len(text) : \E d \in 1..10 : C2_Decimal[d] = text[i]

C2_Digit(c) == (CHOOSE d \in 1..10 : C2_Decimal[d] = c) - 1

\* the number a decimal text of at most three digits writes
C2_Number(text) ==
    LET at(i) == IF i >= 1 THEN C2_Digit(text[i]) ELSE 0
        n == Len(text)
    IN  at(n) + 10 * at(n - 1) + 100 * at(n - 2)

\* C2: a modal submitted to an active session with the decimal text of a
\* number n, 1 <= n <= max_pages, makes current_page n - 1; a submitted text
\* that is not all decimal digits gets an error message and leaves
\* current_page unchanged.
C2_JumpToPage ==
    lastOp.op = "modal_submit" =>
        /\ (phase = "active" /\ C2_AllDecimal(lastOp.text) /\ max_pages # None
                /\ 1 <= C2_Number(lastOp.text)
                /\ C2_Number(lastOp.text) <= max_pages)
              => current_page = C2_Number(lastOp.text) - 1
        /\ ~C2_AllDecimal(lastOp.text)
              => /\ current_page = lastOp.pre
                 /\ Len(responses) = 1
                 /\ responses[1].kind \in
                        {"send_message:expected_number", "send_message:took_too_long",
                         "followup:unknown_error"}

\* "3" was submitted on another page and the session moved to index 2
C2_Witness ==
    /\ lastOp.op = "modal_submit"
    /\ lastOp.text = <<"3">>
    /\ lastOp.pre # 2
    /\ current_page = 2

\* C3: an interaction from a user who is neither the invoker nor the owner
\* gets the ephemeral notice and changes nothing of the session.
C3_Step ==
    lastOp'.user = "stranger" =>
        /\ responses' = <<[on |-> "button", kind |-> "send_message:not_yours"]>>
        /\ UNCHANGED <<phase, message, current_page, fetched, items, disabled, label,
                       rendered, modals>>

C3_StrangerRejected == [][C3_Step]_vars

\* a stranger pressed a button of an active session that had moved on
C3_Witness ==
    /\ lastOp.user = "stranger"
    /\ lastOp.op = "go_to_next_page"
    /\ phase = "active"
    /\ current_page = 1
    /\ responses = <<[on |-> "button", kind |-> "send_message:not_yours"]>>

\* C4: the phase only moves uninitialized -> active -> stopped | timed_out,
\* and once stopped or timed out nothing changes current_page, the message
\* or what it shows.
C4_Step ==
    /\ phase' # phase =>
          \/ (phase = "uninitialized" /\ phase' = "active")
          \/ (phase = "active" /\ phase' \in {"stopped", "timed_out"})
    /\ phase \in {"stopped", "timed_out"} =>
          UNCHANGED <<phase, current_page, fetched, message, rendered, disabled, label>>

C4_Lifecycle == [][C4_Step]_vars

\* a modal opened while active was submitted, with a page number in range,
\* after the session had ended
C4_Witness ==
    /\ phase \in {"stopped", "timed_out"}
    /\ lastOp.op = "modal_submit"
    /\ lastOp.text = <<"2">>
    /\ max_pages = 3
    /\ current_page = 0

\* C5 as stated: when a navigation interaction raises something other than
\* IndexError, the unknown-error notice is sent and current_page is what it
\* was before the interaction.
C5_Original ==
    (ErrorReported /\ lastOp.op \in {"go_to_first_page", "go_to_previous_page",
                                     "go_to_next_page", "go_to_last_page"})
        => current_page = lastOp.pre

\* C6: the timeout of a jump-to-page modal sends the failure notice and
\* changes nothing of the session, which stays in its phase with the same
\* controls.
C6_Step ==
    lastOp'.op = "modal_timeout" =>
        /\ responses' = <<[on |-> "button", kind |-> "followup:took_too_long"]>>
        /\ UNCHANGED <<phase, message, current_page, fetched, items, disabled, label, rendered>>

C6_ModalTimeout == [][C6_Step]_vars

\* a modal timed out on an active session that still offers the next page
C6_Witness ==
    /\ lastOp.op = "modal_timeout"
    /\ phase = "active"
    /\ responses = <<[on |-> "button", kind |-> "followup:took_too_long"]>>
    /\ current_page = 1
    /\ rendered.view
    /\ ~rendered.disabled["go_to_next_page"]

-----------------------------------------------------------------------------
(* WhenAndWhatConverter.convert / WhenAndWhatTransformer.transform *)

\* strings are sequences of characters
MeTo == <<"m", "e", " ", "t", "o", " ">>
MeIn == <<"m", "e", " ", "i", "n", " ">>
MeAt == <<"m", "e", " ", "a", "t", " ">>
MeThat == <<"m", "e", " ", "t", "h", "a", "t", " ">>
FromNow == <<"f", "r", "o", "m", " ", "n", "o", "w">>
To == <<"t", "o", " ">>

\* the prefixes in the order the loop tries them (line 213)
Prefixes == <<MeTo, MeIn, MeAt, MeThat>>

\* the placeholder label (line 254): the single character U+2026
Placeholder == <<Ellipsis>>

\* what str.strip() removes, among the characters that occur
Whitespace == {" "}

\* the argument of lstrip (line 246)
LStripChars == {" ", ",", ".", "!", ":", ";"}

StartsWith(s, p) == Len(s) >= Len(p) /\ SubSeq(s, 1, Len(p)) = p

EndsWith(s, p) == Len(s) >= Len(p) /\ SubSeq(s, Len(s) - Len(p) + 1, Len(s)) = p

RECURSIVE LStrip(_, _)
\* str.lstrip(chars)
LStrip(s, chars) ==
    IF s # <<>> /\ Head(s) \in chars THEN LStrip(Tail(s), chars) ELSE s

RECURSIVE RStrip(_, _)
\* str.rstrip(chars)
RStrip(s, chars) ==
    IF s # <<>> /\ s[Len(s)] \in chars THEN RStrip(SubSeq(s, 1, Len(s) - 1), chars) ELSE s

\* str.strip()
Strip(s) == RStrip(LStrip(s, Whitespace), Whitespace)

RECURSIVE StripPrefixFrom(_, _)
\* the prefix loop with its break (lines 213-216), from the i-th prefix on
StripPrefixFrom(s, i) ==
    IF i > Len(Prefixes) THEN s
    ELSE IF StartsWith(s, Prefixes[i]) THEN SubSeq(s, Len(Prefixes[i]) + 1, Len(s))
    ELSE StripPrefixFrom(s, i + 1)

\* the suffix loop (lines 218-220)
StripSuffix(s) ==
    IF EndsWith(s, FromNow) THEN SubSeq(s, 1, Len(s) - Len(FromNow)) ELSE s

\* mutant of Cleanup: the whitespace is trimmed before the prefix and the
\* suffix are stripped
CleanupTrimFirst(s) == StripSuffix(StripPrefixFrom(Strip(s), 1))

\* "Strip some common stuff" (lines 212-222)
Cleanup(s) == Strip(StripSuffix(StripPrefixFrom(s, 1)))

\* mutant of Ambiguous: a span must be both a prefix and a suffix
AmbiguousEither(begin, end, n) == begin # 0 \/ end # n

\* the span is neither a prefix nor a suffix (lines 242, 440)
Ambiguous(begin, end, n) == begin # 0 /\ end # n

\* the residual text (lines 245-248, 443-446)
What(s, begin, end) ==
    IF begin = 0
    THEN LStrip(SubSeq(s, end + 2, Len(s)), LStripChars)
    ELSE Strip(SubSeq(s, 1, begin))

\* mutant of StripTo: the leading "to " is kept
StripToKept(what) == what

\* the "to " loop (lines 250-252, 448-450)
StripTo(what) ==
    IF StartsWith(what, To) THEN SubSeq(what, Len(To) + 1, Len(what)) ELSE what

\* mutant of OrPlaceholder: an empty label is returned as it is
OrPlaceholderNever(what) == what

\* what or the placeholder (line 254)
OrPlaceholder(what) == IF what = <<>> THEN Placeholder ELSE what

\* the characters of the texts converted
SplitChars == {" ", "!", "t", "o"}

Bodies == UNION {[1..n -> SplitChars] : n \in 0..MaxLen}

\* the arguments converted: a text, after an optional filler prefix and
\* before an optional "from now"
RawInputs ==
    {pre \o body \o suf : pre \in {<<>>, MeTo}, body \in Bodies, suf \in {<<>>, FromNow}}

RECURSIVE CandidatesFrom(_, _, _, _)
\* the lists of at most k candidates in a text of n characters, none starting
\* before offset lo, the first resolving to the instant i
CandidatesFrom(n, lo, i, k) ==
    IF k = 0 THEN {<<>>}
    ELSE {<<>>} \cup UNION { UNION {
             {<<[when |-> i, begin |-> b, end |-> e]>> \o rest :
                 rest \in CandidatesFrom(n, e, i + 1, k - 1)}
             : e \in (b + 1)..n}
             : b \in lo..(n - 1)}

\* the lists DatetimeConverter.parse may return for a text of n characters:
\* at most MaxCands candidates <<when, begin, end>>, one after the other in
\* the text, none empty; the i-th candidate resolves to the instant i
CandidateLists(n) == CandidatesFrom(n, 0, 1, MaxCands)

InitSplit ==
    /\ phase = "uninitialized"
    /\ message = "None"
    /\ current_page = 0
    /\ fetched = None
    /\ compact = FALSE
    /\ max_pages = None
    /\ srcLen = 1
    /\ negIndex = FALSE
    /\ items = FillItems(compact, max_pages)
    /\ disabled = InitDisabled
    /\ label = InitLabel
    /\ rendered = [page |-> None, view |-> FALSE, disabled |-> InitDisabled]
    /\ modals = 0
    /\ responses = <<>>
    /\ lastOp = [op |-> "__init__", user |-> "none", pre |-> 0, text |-> <<>>,
                 fail |-> "none"]
    /\ pc = "input"
    /\ argument \in RawInputs
    /\ parsed_times = <<>>
    /\ result = [raised |-> "none"]
    /\ stripped = <<>>
    /\ data = <<>>
    /\ clock = Now

\* lines 212-222 / 413-423
StripCommon ==
    /\ pc = "input"
    /\ argument' = Cleanup(argument)
    /\ pc' = "cleaned"
    /\ UNCHANGED <<parsed_times, result, stripped, data, clock>>
    /\ UNCHANGED pagerVars

\* the call of parse (lines 231-233 / 431) and what it returns (lines 139-183)
Parse ==
    /\ pc = "cleaned"
    /\ parsed_times' \in CandidateLists(Len(argument))
    /\ pc' = "parsed"
    /\ UNCHANGED <<argument, result, stripped, data, clock>>
    /\ UNCHANGED pagerVars

\* lines 235-254 / 433-452; the transformer returns `when` alone
Split ==
    /\ pc = "parsed"
    /\ pc' = "done"
    /\ result' =
          IF Len(parsed_times) = 0
          THEN [raised |-> "Could not parse time."]
          ELSE LET when == parsed_times[1].when
                   begin == parsed_times[1].begin
                   end == parsed_times[1].end
               IN  IF Ambiguous(begin, end, Len(argument))
                   THEN [raised |-> "Could not distinguish time from argument."]
                   ELSE [raised |-> "none", when |-> when,
                         what |-> OrPlaceholder(StripTo(What(argument, begin, end)))]
    /\ UNCHANGED <<argument, parsed_times, stripped, data, clock>>
    /\ UNCHANGED pagerVars

NextSplit ==
    \/ StripCommon
    \/ Parse
    \/ Split

SpecSplit == InitSplit /\ [][NextSplit]_vars

-----------------------------------------------------------------------------
(* Claims about the splitter *)

Returned == pc = "done" /\ result.raised = "none"

First == parsed_times[1]

\* C7: the conversion raises "Could not distinguish time from argument."
\* exactly when the first candidate's span neither starts at offset 0 nor ends
\* at the end of the trimmed text, and returns a result for every span that
\* is a prefix or a suffix.
C7_AmbiguousExactly ==
    (pc = "done" /\ Len(parsed_times) > 0) =>
        /\ (result.raised = "Could not distinguish time from argument.")
              <=> (First.begin # 0 /\ First.end # Len(argument))
        /\ (First.begin = 0 \/ First.end = Len(argument)) => result.raised = "none"

\* a span in the middle of the text was refused
C7_Witness ==
    /\ pc = "done"
    /\ Len(parsed_times) > 0
    /\ First.begin > 0
    /\ First.end < Len(argument)
    /\ result.raised = "Could not distinguish time from argument."

\* the characters the claim lists: space, comma, period, colon, semicolon
C8_Punctuation == {" ", ",", ".", ":", ";"}

\* s from its first character outside chars on
C8_After(s, chars) ==
    LET i == CHOOSE k \in 1..(Len(s) + 1) :
                 /\ \A j \in 1..(k - 1) : s[j] \in chars
                 /\ k <= Len(s) => s[k] \notin chars
    IN  SubSeq(s, i, Len(s))

\* C8 as stated, taken on the texts where the span is followed by no "!" and
\* the stripped remainder does not begin with "to " (there the characters the
\* claim lists are all that lines 246-252 strip): for a span that is a strict
\* prefix, the label is the text after the span's end offset with the leading
\* space, comma, period, colon and semicolon characters stripped, and nothing
\* else dropped (the placeholder standing for an empty label).
C8_Original ==
    (Returned /\ First.begin = 0 /\ First.end < Len(argument)) =>
        LET after == SubSeq(argument, First.end + 1, Len(argument))
            rest == C8_After(after, C8_Punctuation)
        IN  (/\ \A i \in 1..Len(after) : after[i] # "!"
             /\ ~(Len(rest) >= 3 /\ rest[1] = "t" /\ rest[2] = "o" /\ rest[3] = " "))
                => result.what = IF rest = <<>> THEN <<"...">> ELSE rest

\* s without its leading and trailing spaces
C9_Trimmed(s) ==
    LET lo == CHOOSE k \in 1..(Len(s) + 1) :
                  /\ \A j \in 1..(k - 1) : s[j] = " "
                  /\ k <= Len(s) => s[k] # " "
        hi == CHOOSE k \in 0..Len(s) :
                  /\ \A j \in (k + 1)..Len(s) : s[j] = " "
                  /\ k >= 1 => s[k] # " "
    IN  SubSeq(s, lo, hi)

\* C9 as stated: for a span that is a strict suffix, the label is the text
\* before the span's start offset, trimmed.
C9_Original ==
    (Returned /\ First.begin > 0 /\ First.end = Len(argument)) =>
        result.what = C9_Trimmed(SubSeq(argument, 1, First.begin))

\* C9 amended: for a span that is a strict suffix, the label is the text
\* before the span's start offset, trimmed, and then without its leading
\* "to " when it has one.
C9_SuffixLabel ==
    (Returned /\ First.begin > 0 /\ First.end = Len(argument)) =>
        LET t == C9_Trimmed(SubSeq(argument, 1, First.begin))
        IN  result.what =
                IF Len(t) >= 3 /\ t[1] = "t" /\ t[2] = "o" /\ t[3] = " "
                THEN SubSeq(t, 4, Len(t))
                ELSE t

\* the text before a suffix span started with "to " and lost it
C9_Witness ==
    /\ Returned
    /\ argument = <<"t", "o", " ", "o", "t">>
    /\ First.begin = 4
    /\ First.end = 5
    /\ result.what = <<"o">>

\* C10: when the span covers the whole trimmed text the label is the
\* placeholder, and no label returned is empty.
C10_Placeholder ==
    Returned =>
        /\ result.what # <<>>
        /\ (First.begin = 0 /\ First.end = Len(argument)) => result.what = <<"...">>

\* a span over the whole of a text of several characters gave the placeholder
C10_Witness ==
    /\ Returned
    /\ Len(argument) >= 2
    /\ First.begin = 0
    /\ First.end = Len(argument)
    /\ result.what = <<"...">>

-----------------------------------------------------------------------------
(* The clean-up of lines 212-222 / 413-423, taken alone *)

\* the paginator's variables of a conversion, where no session exists
NoSession ==
    /\ phase = "uninitialized"
    /\ message = "None"
    /\ current_page = 0
    /\ fetched = None
    /\ compact = FALSE
    /\ max_pages = None
    /\ srcLen = 1
    /\ negIndex = FALSE
    /\ items = FillItems(compact, max_pages)
    /\ disabled = InitDisabled
    /\ label = InitLabel
    /\ rendered = [page |-> None, view |-> FALSE, disabled |-> InitDisabled]
    /\ modals = 0
    /\ responses = <<>>
    /\ lastOp = [op |-> "__init__", user |-> "none", pre |-> 0, text |-> <<>>,
                 fail |-> "none"]

\* the arguments cleaned: a text after no filler prefix, one, or two of them,
\* and before an optional "from now"
StripInputs ==
    {pre \o body \o suf : pre \in {<<>>, MeTo, MeThat, MeIn \o MeTo},
                          body \in Bodies, suf \in {<<>>, FromNow}}

InitStrip ==
    /\ NoSession
    /\ pc = "input"
    /\ argument \in StripInputs
    /\ parsed_times = <<>>
    /\ result = [raised |-> "none"]
    /\ stripped = <<>>
    /\ data = <<>>
    /\ clock = Now

\* one pass of lines 212-222 over the argument, then over its own output
StripPass ==
    /\ pc = "input"
    /\ Len(stripped) < 2
    /\ stripped' = Append(stripped,
                          Cleanup(IF stripped = <<>> THEN argument
                                  ELSE stripped[Len(stripped)]))
    /\ UNCHANGED <<pc, argument, parsed_times, result, data, clock>>
    /\ UNCHANGED pagerVars

NextStrip == StripPass

SpecStrip == InitStrip /\ [][NextStrip]_vars

\* C11 as stated: the clean-up applied to its own output returns that output
\* unchanged, for every input string.
C11_Original ==
    Len(stripped) = 2 => stripped[2] = stripped[1]

\* s begins with one of the four filler prefixes or ends with "from now"
C11_Strippable(s) ==
    \/ \E p \in {MeTo, MeIn, MeAt, MeThat} :
           Len(s) >= Len(p) /\ \A i \in 1..Len(p) : s[i] = p[i]
    \/ /\ Len(s) >= Len(FromNow)
       /\ \A i \in 1..Len(FromNow) : s[Len(s) - Len(FromNow) + i] = FromNow[i]

\* C11 amended: the output of the clean-up has no space at either end, and
\* the clean-up applied to its own output returns that output unchanged
\* exactly when the output neither begins with a filler prefix nor ends with
\* "from now"; otherwise the second pass strips again.
C11_IdempotentUnlessStrippable ==
    /\ \A i \in 1..Len(stripped) :
           LET s == stripped[i]
           IN  s # <<>> => (s[1] # " " /\ s[Len(s)] # " ")
    /\ Len(stripped) = 2 =>
           /\ (stripped[2] = stripped[1]) <=> ~C11_Strippable(stripped[1])
           /\ Len(stripped[2]) <= Len(stripped[1])

\* a filler prefix, a trailing "from now" and the space left before it were
\* stripped by the first pass, and the second pass changed nothing
C11_Witness ==
    /\ argument = MeTo \o <<"t", "o", " ">> \o FromNow
    /\ stripped = << <<"t", "o">>, <<"t", "o">> >>

-----------------------------------------------------------------------------
(* DatetimeConverter.parse and the conversions that call it *)

\* the entries of a response: dim "time" holding a "value", dim "time"
\* holding none (an interval), dim "duration" (lines 165, 173)
Kinds == {<<"time", TRUE>>, <<"time", FALSE>>, <<"duration", TRUE>>}

\* the responses of the parser to a text of n characters: at most MaxCands
\* entries, one after the other in the text; the i-th entry holds the value
\* i, an instant for dim "time" and a number of seconds for dim "duration"
Responses(n) ==
    UNION { { [j \in 1..Len(c) |->
                 [dim |-> k[j][1], valued |-> k[j][2], value |-> c[j].when,
                  start |-> c[j].begin, end |-> c[j].end]] :
              k \in [1..Len(c) -> Kinds] } :
            c \in CandidateLists(n) }

RECURSIVE TimesUnfiltered(_, _)
\* mutant of Times: an entry of dim "time" is kept without its "value"
TimesUnfiltered(d, wall) ==
    IF d = <<>> THEN <<>>
    ELSE LET time == Head(d)
         IN  <<[when |-> IF time.dim = "duration" THEN wall + time.value
                         ELSE time.value,
                begin |-> time.start, end |-> time.end]>>
                 \o TimesUnfiltered(Tail(d), wall)

RECURSIVE Times(_, _)
\* the loop of parse over the entries (lines 164-181), datetime.now() reading
\* wall
Times(d, wall) ==
    IF d = <<>> THEN <<>>
    ELSE LET time == Head(d)
         IN  IF time.dim = "time" /\ time.valued
             THEN <<[when |-> time.value, begin |-> time.start, end |-> time.end]>>
                      \o Times(Tail(d), wall)
             ELSE IF time.dim = "duration"
             THEN <<[when |-> wall + time.value,
                     begin |-> time.start, end |-> time.end]>>
                      \o Times(Tail(d), wall)
             ELSE Times(Tail(d), wall)

\* the texts converted: letters, with or without a space after them
WhenTexts ==
    {[j \in 1..n |-> "t"] \o suf : n \in 0..(MaxLen - 1), suf \in {<<>>, <<" ">>}}

InitWhen ==
    /\ NoSession
    /\ pc = "input"
    /\ argument \in WhenTexts
    /\ parsed_times = <<>>
    /\ result = [raised |-> "none"]
    /\ stripped = <<>>
    /\ data = <<>>
    /\ clock = Now

\* parse (lines 139-183): the response arrives and is processed MaxDelay
\* ticks at most after the message or interaction was created
ParseResponse(next) ==
    /\ \E d \in Responses(Len(argument)), delay \in 0..MaxDelay :
          /\ data' = d
          /\ clock' = Now + delay
          /\ parsed_times' = Times(d, Now + delay)
    /\ pc' = next
    /\ UNCHANGED <<argument, result, stripped>>
    /\ UNCHANGED pagerVars

\* WhenAndWhatConverter.convert, lines 231-233 / 431
ParseCleaned ==
    /\ pc = "cleaned"
    /\ ParseResponse("parsed")

\* DatetimeConverter.convert, line 196 / DatetimeTransformer.transform,
\* lines 334-336
ParseWhole ==
    /\ pc = "input"
    /\ ParseResponse("parsed_whole")

\* DatetimeConverter.convert, lines 198-203 / DatetimeTransformer.transform,
\* lines 338-343
Convert ==
    /\ pc = "parsed_whole"
    /\ pc' = "done_whole"
    /\ result' =
          IF Len(parsed_times) = 0
          THEN [raised |-> "Could not parse time."]
          ELSE [raised |-> "none", when |-> parsed_times[1].when]
    /\ UNCHANGED <<argument, parsed_times, stripped, data, clock>>
    /\ UNCHANGED pagerVars

NextWhen ==
    \/ StripCommon
    \/ ParseCleaned
    \/ Split
    \/ ParseWhole
    \/ Convert

SpecWhen == InitWhen /\ [][NextWhen]_vars

-----------------------------------------------------------------------------
(* Claims about the candidates *)

\* an entry of the response that yields a candidate
C12_Usable(e) == e.dim = "duration" \/ (e.dim = "time" /\ e.valued)

\* C12: in the splitter and in the whole-string conversion alike, the
\* conversion fails with "Could not parse time." exactly when the response
\* holds no usable entry; otherwise the timestamp returned and the span used
\* are those of the first usable entry in the order of the response, whatever
\* the later entries are.
C12_FirstCandidate ==
    pc \in {"done", "done_whole"} =>
        LET usable == {j \in 1..Len(data) : C12_Usable(data[j])}
        IN  /\ (result.raised = "Could not parse time.") <=> (usable = {})
            /\ usable # {} =>
                  LET f == CHOOSE j \in usable : \A i \in usable : j <= i
                      instant == IF data[f].dim = "duration"
                                 THEN clock + data[f].value
                                 ELSE data[f].value
                      middle == data[f].start # 0 /\ data[f].end # Len(argument)
                  IN  /\ pc = "done_whole" =>
                             result = [raised |-> "none", when |-> instant]
                      /\ pc = "done" =>
                             IF middle
                             THEN result.raised =
                                      "Could not distinguish time from argument."
                             ELSE /\ result.raised = "none"
                                  /\ result.when = instant
                                  /\ result.what =
                                         OrPlaceholder(StripTo(
                                             What(argument, data[f].start,
                                                  data[f].end)))

\* the whole-string conversion returned the instant of the first of two
\* usable entries, which is not the instant of the second
C12_Witness ==
    /\ pc = "done_whole"
    /\ Len(data) = 2
    /\ Len(parsed_times) = 2
    /\ data[1].dim = "time"
    /\ data[2].dim = "duration"
    /\ result.raised = "none"
    /\ result.when = data[1].value
    /\ result.when # parsed_times[2].when

\* C13 as stated: for a first candidate of dimension "duration", the instant
\* returned is the creation time of the message or interaction plus the
\* duration in seconds, whatever the wall clock is when the response is
\* processed.
C13_Original ==
    (/\ pc \in {"done", "done_whole"}
     /\ result.raised = "none"
     /\ data[1].dim = "duration") =>
        result.when = Now + data[1].value

-----------------------------------------------------------------------------
(* Claims about the controls *)

\* the latest event rendered a page: start sent the message, or show_page
\* edited it
Rendered ==
    \/ (lastOp.op = "start" /\ phase = "active")
    \/ \E i \in 1..Len(responses) : responses[i].kind = "edit_message"

\* the index of the last page of the source
LastPage == IF max_pages # None THEN max_pages - 1 ELSE srcLen - 1

\* C14 as stated: after every render, in full mode and in compact mode alike,
\* the previous control is disabled exactly when current_page = 0 and the
\* next control exactly when current_page is the last page; in full mode the
\* control at a boundary is labelled with the ellipsis and otherwise the
\* previous, current and next labels are current_page, current_page + 1 and
\* current_page + 2; in compact mode no label ever changes.
C14_Original ==
    /\ Rendered =>
          /\ disabled["go_to_previous_page"] <=> (current_page = 0)
          /\ disabled["go_to_next_page"] <=> (current_page = LastPage)
          /\ ~compact =>
                /\ label["go_to_current_page"] = ToString(current_page + 1)
                /\ label["go_to_previous_page"] =
                       IF current_page = 0 THEN "..." ELSE ToString(current_page)
                /\ label["go_to_next_page"] =
                       IF current_page = LastPage THEN "..."
                       ELSE ToString(current_page + 2)
    /\ compact => label = InitLabel

\* the part of C14 that holds: the same, for a source whose max_pages is known
C14_KnownMax ==
    max_pages # None => C14_Original

\* C15 as stated: with an unknown maximum page count, after every render the
\* go-to-last control and the jump-to-page control are both disabled or
\* absent; and the go-to-last control is offered only when max_pages is
\* known and at least 2.
C15_Original ==
    /\ (Rendered /\ max_pages = None) =>
          \A b \in {"go_to_last_page", "numbered_page"} :
              b \notin items \/ disabled[b]
    /\ "go_to_last_page" \in items => (max_pages # None /\ max_pages >= 2)

\* C15 amended: with an unknown maximum page count the go-to-last control is
\* absent and is never triggered, and the jump-to-page control is absent in
\* compact mode but present and enabled in full mode; the go-to-last control
\* is offered only when max_pages is known and at least 2.
C15_LastNeedsMax ==
    /\ max_pages = None =>
          /\ "go_to_last_page" \notin items
          /\ lastOp.op # "go_to_last_page"
          /\ compact => "numbered_page" \notin items
          /\ ~compact => ("numbered_page" \in items /\ ~disabled["numbered_page"])
    /\ "go_to_last_page" \in items => (max_pages # None /\ max_pages >= 2)

\* a session in full mode over a source with an unknown maximum page count
\* jumped from page 0 to the page typed into the modal
C15_Witness ==
    /\ max_pages = None
    /\ ~compact
    /\ phase = "active"
    /\ lastOp.op = "modal_submit"
    /\ lastOp.text = <<"2">>
    /\ lastOp.pre = 0
    /\ current_page = 1
    /\ Rendered
    /\ "go_to_last_page" \notin items

\* C16: for a source with a known max_pages >= 1, whatever first, previous,
\* next, last and jump interactions were handled, 0 <= current_page <
\* max_pages, and once a page was fetched current_page is the index of the
\* page fetched last.
C16_InRange ==
    max_pages # None =>
        /\ 0 <= current_page
        /\ current_page < max_pages
        /\ phase # "uninitialized" => fetched # None
        /\ fetched # None => current_page = fetched

\* the last page of three was reached by go_to_next_page, whose rendering
\* failed after the page was fetched
C16_Witness ==
    /\ max_pages = 3
    /\ lastOp.op = "go_to_next_page"
    /\ lastOp.pre = 1
    /\ lastOp.fail = "format_page"
    /\ fetched = 2
    /\ current_page = 2

====
